---- MODULE Spec2Model ----
(***************************************************************************)
(* A model of src/http.ts of node-soap: the HttpClient class (buildRequest,*)
(* handleResponse, request, requestStream, ntlmHandshake) and the default  *)
(* transport executor requestWrapper.                                      *)
(*                                                                         *)
(* JavaScript values are modelled as follows.                              *)
(*   - a string that the code inspects character by character (a payload,  *)
(*     a response body) is a sequence of characters, each a one-character  *)
(*     TLA+ string; the word Envelope is kept as the one token "E" (and    *)
(*     "e" for envelope);                                                  *)
(*   - a header value is the sequence of its "; "-separated pieces;        *)
(*   - a plain object iterated with for..in is a sequence of <<key,value>> *)
(*     pairs in insertion order;                                           *)
(*   - a Headers object is [list, props]: list maps lower-cased header     *)
(*     names to values (the header list get/set/forEach work on), props    *)
(*     holds the ordinary JavaScript properties assigned on the object;    *)
(*   - undefined, a response and a stream are tagged records.              *)
(***************************************************************************)
EXTENDS Integers, Sequences, FiniteSets, TLC

\* ------------------------------------------------------------------------
\* Bounds of the model
\* ------------------------------------------------------------------------

\* how many times a caller-supplied transport executor may invoke its callback
MaxExecCalls == 2
\* how many data chunks a piped response body relays
MaxChunks == 1
\* how many attachments a call of buildRequest carries
MaxAttachments == 2
\* how many pieces (tags, comments, declarations, text) a response body
\* given to handleResponse is made of
MaxSegments == 4

\* ------------------------------------------------------------------------
\* JavaScript values
\* ------------------------------------------------------------------------

Undefined == [t |-> "undefined"]
Str(s) == [t |-> "string", s |-> s]
Obj(kind) == [t |-> "object", kind |-> kind]
NoError == "null"

\* typeof v === 'string'
IsString(v) == v.t = "string"

\* JavaScript truthiness of a payload: undefined and '' are falsy
Truthy(v) == \/ v.t = "object"
             \/ v.t = "string" /\ v.s # <<>>

\* ------------------------------------------------------------------------
\* Headers (cross-fetch): case-insensitive names, last write wins
\* ------------------------------------------------------------------------

Lower(n) == CASE n = "User-Agent" -> "user-agent"
              [] n = "Accept" -> "accept"
              [] n = "Accept-Encoding" -> "accept-encoding"
              [] n = "Accept-Charset" -> "accept-charset"
              [] n = "Connection" -> "connection"
              [] n = "Host" -> "host"
              [] n = "Content-Length" -> "content-length"
              [] n = "Content-Type" -> "content-type"
              [] n = "Authorization" -> "authorization"
              [] n = "SOAPAction" -> "soapaction"
              [] OTHER -> n

EmptyMap == [k \in {} |-> <<>>]
EmptyHeaders == [list |-> EmptyMap, props |-> EmptyMap]

MapPut(m, k, v) == [x \in DOMAIN m \cup {k} |-> IF x = k THEN v ELSE m[x]]

\* headers.set(name, value)
HeadersSet(h, name, value) == [h EXCEPT !.list = MapPut(@, Lower(name), value)]

\* headers.get(name): null when the header is absent
NullHeader == <<"null">>
HeadersGet(h, name) ==
  IF Lower(name) \in DOMAIN h.list THEN h.list[Lower(name)] ELSE NullHeader

\* headersObject[name] = value: an ordinary property, not a header
HeadersAssignProp(h, name, value) == [h EXCEPT !.props = MapPut(@, name, value)]

RECURSIVE SetAll(_, _)
SetAll(h, pairs) ==
  IF pairs = <<>> THEN h
  ELSE SetAll(HeadersSet(h, pairs[1][1], pairs[1][2]), Tail(pairs))

RECURSIVE AssignAll(_, _)
AssignAll(h, pairs) ==
  IF pairs = <<>> THEN h
  ELSE AssignAll(HeadersAssignProp(h, pairs[1][1], pairs[1][2]), Tail(pairs))

\* new Headers(init) for a plain object given as pairs
HeadersFromObject(pairs) == SetAll(EmptyHeaders, pairs)

\* new Headers(init) for a Headers object: the header list is copied, the
\* ordinary properties of init are not
HeadersCopy(h) == [list |-> h.list, props |-> EmptyMap]

\* ------------------------------------------------------------------------
\* buildRequest
\* ------------------------------------------------------------------------

\* Buffer.byteLength of one character in UTF-8 ("E", "e": the word Envelope)
Utf8Bytes(c) == CASE c \in {"E", "e"} -> 8
                  [] c = "é" -> 2
                  [] c = "€" -> 3
                  [] OTHER -> 1

RECURSIVE byteLength(_)
byteLength(s) == IF s = <<>> THEN 0 ELSE Utf8Bytes(s[1]) + byteLength(Tail(s))

\* parseInt(curl.port, 10) for a port written as decimal digits
RECURSIVE parseInt(_)
parseInt(digits) ==
  IF digits = <<>> THEN 0
  ELSE 10 * parseInt(SubSeq(digits, 1, Len(digits) - 1)) + digits[Len(digits)]

\* isNaN(parseInt(curl.port, 10)): url.parse gives port null when the URL
\* names none
portIsNaN(digits) == digits = <<>>

\* a parse that drops the port when it is the scheme's default one, the way
\* the WHATWG URL class does
urlParseDropsDefault(rurl) ==
  [hostname |-> rurl.hostname,
   port |-> IF \/ rurl.protocol = "http:" /\ parseInt(rurl.port) = 80
               \/ rurl.protocol = "https:" /\ parseInt(rurl.port) = 443
            THEN <<>> ELSE rurl.port]

\* url.parse(rurl): the legacy parser returns the port exactly as the URL
\* writes it, the scheme's default port included, and null when none is
\* written
urlParse(rurl) == [hostname |-> rurl.hostname, port |-> rurl.port]

\* exoptions[key], with the value an absent key reads as
Opt(exoptions, key, absent) ==
  IF key \in DOMAIN exoptions THEN exoptions[key] ELSE absent

\* exoptions.attachments || []
attachmentsOf(exoptions) == Opt(exoptions, "attachments", <<>>)

\* contentType.indexOf('action') > -1, for one "; "-separated piece
ContainsAction(piece) == piece \in {"action=\"urn:op\"", "text/xml;action=\"urn:op\""}

\* the last piece of contentType.split('; ') that contains 'action', or null
RECURSIVE actionOf(_)
actionOf(contentType) ==
  IF contentType = <<>> THEN "null"
  ELSE IF ContainsAction(contentType[Len(contentType)])
       THEN contentType[Len(contentType)]
       ELSE actionOf(SubSeq(contentType, 1, Len(contentType) - 1))

\* a count of the payload's characters in place of its bytes
plainHeadersCharCount(headers, data, exoptions) ==
  IF /\ IsString(data)
     /\ Len(attachmentsOf(exoptions)) = 0
     /\ ~Opt(exoptions, "forceMTOM", FALSE)
  THEN HeadersSet(HeadersSet(headers, "Content-Length", <<ToString(Len(data.s))>>),
                  "Content-Type", <<"application/x-www-form-urlencoded">>)
  ELSE headers

\* lines 110-113: a string payload sent without attachments and without
\* forceMTOM gets its Content-Length and the form Content-Type
plainHeaders(headers, data, exoptions) ==
  IF /\ IsString(data)
     /\ Len(attachmentsOf(exoptions)) = 0
     /\ ~Opt(exoptions, "forceMTOM", FALSE)
  THEN HeadersSet(HeadersSet(headers, "Content-Length", <<ToString(byteLength(data.s))>>),
                  "Content-Type", <<"application/x-www-form-urlencoded">>)
  ELSE headers

\* the header set as it stands at line 126: base headers, the plain-string
\* Content-Length and Content-Type, then the caller's extra headers
baseHeaders(rurl, data, exheaders, exoptions) ==
  LET curl == urlParse(rurl)
      base == HeadersFromObject(<<
                <<"User-Agent", <<"node-soap/VERSION">>>>,
                <<"Accept", <<"text/html,application/xhtml+xml,application/xml,text/xml;q=0.9,*/*;q=0.8">>>>,
                <<"Accept-Encoding", <<"none">>>>,
                <<"Accept-Charset", <<"utf-8">>>>,
                <<"Connection", <<IF Opt(exoptions, "forever", FALSE) THEN "keep-alive" ELSE "close">>>>,
                <<"Host", <<curl.hostname \o (IF portIsNaN(curl.port) THEN ""
                                              ELSE ":" \o ToString(parseInt(curl.port)))>>>> >>)
  IN SetAll(plainHeaders(base, data, exoptions), exheaders)

\* a test of forceMTOM alone
isMultipartForcedOnly(exoptions) == Opt(exoptions, "forceMTOM", FALSE)

\* exoptions.forceMTOM || attachments.length > 0
isMultipart(exoptions) ==
  Opt(exoptions, "forceMTOM", FALSE) \/ Len(attachmentsOf(exoptions)) > 0

\* buildRequest throws a TypeError at line 131 when the multipart branch
\* finds no Content-Type header: headers.get returns null
buildRequestThrows(rurl, data, exheaders, exoptions) ==
  /\ isMultipart(exoptions)
  /\ HeadersGet(baseHeaders(rurl, data, exheaders, exoptions), "content-type") = NullHeader

attachmentPart(a) ==
  ("Content-Type" :> a.mimetype)
  @@ ("Content-Transfer-Encoding" :> "binary")
  @@ ("Content-ID" :> "<" \o a.contentId \o ">")
  @@ ("Content-Disposition" :> "attachment; filename=\"" \o a.name \o "\"")
  @@ ("body" :> a.body)

multipartOf(data, attachments, start) ==
  << ("Content-Type" :> "application/xop+xml; charset=UTF-8; type=\"text/xml\"")
     @@ ("Content-ID" :> "<" \o start \o ">")
     @@ ("body" :> data) >>
  \o [i \in 1..Len(attachments) |-> attachmentPart(attachments[i])]

\* the Content-Type of a multipart request (lines 139-143)
multipartContentType(old, start, boundary) ==
  LET ct == << "multipart/related", "type=\"application/xop+xml\"",
               "start=\"<" \o start \o ">\"", "start-info=\"text/xml\"",
               "boundary=" \o boundary >>
      action == actionOf(old)
  IN IF action # "null" THEN Append(ct, action) ELSE ct

\* the keys of _.omit(exoptions, ['attachments']) that are not merged
copiedKeys(exoptions) == DOMAIN exoptions \ {"attachments", "headers"}

\* the descriptor buildRequest returns when it does not throw; start and
\* boundary are the two values uuid() returns
buildRequest(rurl, data, exheaders, exoptions, start, boundary) ==
  LET h0 == baseHeaders(rurl, data, exheaders, exoptions)
      h1 == IF isMultipart(exoptions)
            THEN HeadersSet(h0, "Content-Type",
                            multipartContentType(HeadersGet(h0, "content-type"), start, boundary))
            ELSE h0
      h2 == AssignAll(h1, Opt(exoptions, "headers", <<>>))
      payload == IF isMultipart(exoptions)
                 THEN [multipart |-> multipartOf(data, attachmentsOf(exoptions), start)]
                 ELSE [body |-> data]
      built == [uri |-> rurl.href, method |-> IF Truthy(data) THEN "POST" ELSE "GET",
                headers |-> h2, redirect |-> "follow"] @@ payload
  IN [k \in copiedKeys(exoptions) |-> exoptions[k]] @@ built

\* ------------------------------------------------------------------------
\* handleResponse
\* ------------------------------------------------------------------------

\* whether s holds the characters of pat from position i on
At(s, i, pat) ==
  /\ i >= 1
  /\ i + Len(pat) - 1 <= Len(s)
  /\ \A k \in 1..Len(pat) : s[i + k - 1] = pat[k]

\* the i flag: letters compare without case
Fold(c) == CASE c = "E" -> "e"
             [] c = "S" -> "s"
             [] c = "X" -> "x"
             [] OTHER -> c

AtFolded(s, i, pat) ==
  /\ i >= 1
  /\ i + Len(pat) - 1 <= Len(s)
  /\ \A k \in 1..Len(pat) : Fold(s[i + k - 1]) = Fold(pat[k])

Min(S) == CHOOSE x \in S : \A y \in S : x <= y
Max(S) == CHOOSE x \in S : \A y \in S : x >= y

\* body.replace(/<!--[\s\S]*?-->/, ''): without the g flag, the first
\* comment only, up to the nearest -->
removeComment(s) ==
  LET opens == {i \in 1..Len(s) :
                  /\ At(s, i, <<"<", "!", "-", "-">>)
                  /\ \E j \in (i + 4)..Len(s) : At(s, j, <<"-", "-", ">">>)}
  IN IF opens = {} THEN s
     ELSE LET i == Min(opens)
              j == Min({k \in (i + 4)..Len(s) : At(s, k, <<"-", "-", ">">>)})
          IN SubSeq(s, 1, i - 1) \o SubSeq(s, j + 3, Len(s))

\* (?:<\?[^?]*\?>[\s]*)? at position i: the position after it, or 0 when
\* no declaration stands at i
afterDeclaration(s, i) ==
  IF ~At(s, i, <<"<", "?">>) THEN 0
  ELSE LET marks == {q \in (i + 2)..Len(s) : s[q] = "?"}
       IN IF marks = {} THEN 0
          ELSE LET q == Min(marks)
               IN IF ~At(s, q + 1, <<">">>) THEN 0
                  ELSE Min({r \in (q + 2)..(Len(s) + 1) :
                              \A k \in (q + 2)..(r - 1) : s[k] = " "}
                           \ {r \in (q + 2)..Len(s) : s[r] = " "})

\* a lazy ([\S\s]*?), which stops at the first closing tag
envelopeEndLazy(s, j) ==
  IF ~At(s, j, <<"<">>) THEN 0
  ELSE LET colons == {c \in (j + 1)..Len(s) : s[c] = ":"}
       IN IF colons = {} THEN 0
          ELSE LET c == Min(colons)
                   prefix == SubSeq(s, j + 1, c - 1)
                   closing == <<"<", "/">> \o prefix \o <<":", "E", ">">>
                   ends == {k \in (c + 2)..Len(s) : AtFolded(s, k, closing)}
               IN IF ~AtFolded(s, c + 1, <<"E">>) \/ ends = {} THEN 0
                  ELSE Min(ends) + Len(closing) - 1

\* <([^:]*):Envelope([\S\s]*)<\/\1:Envelope> with its < at position j: the
\* position of the last character of the match, or 0 when there is none
envelopeEnd(s, j) ==
  IF ~At(s, j, <<"<">>) THEN 0
  ELSE LET colons == {c \in (j + 1)..Len(s) : s[c] = ":"}
       IN IF colons = {} THEN 0
          ELSE LET c == Min(colons)
                   prefix == SubSeq(s, j + 1, c - 1)
                   closing == <<"<", "/">> \o prefix \o <<":", "E", ">">>
                   ends == {k \in (c + 2)..Len(s) : AtFolded(s, k, closing)}
               IN IF ~AtFolded(s, c + 1, <<"E">>) \/ ends = {} THEN 0
                  ELSE Max(ends) + Len(closing) - 1

\* the match of the regular expression of line 193 that starts at i, as
\* the position of its last character, or 0
matchEnd(s, i) ==
  LET j == afterDeclaration(s, i)
      withDeclaration == IF j = 0 THEN 0 ELSE envelopeEnd(s, j)
  IN IF withDeclaration # 0 THEN withDeclaration ELSE envelopeEnd(s, i)

\* handleResponse(req, res, body), lines 187-199
handleResponse(body) ==
  IF IsString(body)
  THEN LET s == removeComment(body.s)
           starts == {i \in 1..Len(s) : matchEnd(s, i) # 0}
       IN IF starts = {} THEN body
          ELSE Str(SubSeq(s, Min(starts), matchEnd(s, Min(starts))))
  ELSE body

\* ------------------------------------------------------------------------
\* The state of one client and of one call made on it
\* ------------------------------------------------------------------------

VARIABLES
  _request,    \* this._request: "requestWrapper" or "custom"
  pc,          \* the call: "idle", "returned" or "threw"
  call,        \* the arguments of the call
  options,     \* the descriptor buildRequest returned
  req,         \* what request() or requestStream() returned
  fired,       \* _.once: whether _callback has run
  delivered,   \* the invocations that reached the caller's callback
  reads,       \* the res.text() promises of callback
  hs,          \* the promise chain of ntlmHandshake
  sent,        \* the exchanges started with the built-in fetch
  exec,        \* the real exchange: "none", "inflight" or "done"
  execInv,     \* the descriptors this._request was invoked with
  execCb,      \* the invocations of the callback given to this._request
  execSync,    \* how many of them it made before this._request returned
  execThrew,   \* whether this._request threw synchronously
  settled,     \* how the fetch of requestWrapper settled
  stream       \* the PassThrough of requestStream

vars == << _request, pc, call, options, req, fired, delivered, reads, hs,
           sent, exec, execInv, execCb, execSync, execThrew, settled, stream >>

NoCall == [op |-> "none"]
NoDescriptor == <<>>
NoHandshake == [state |-> "none", www |-> <<"unanswered">>, value |-> NullHeader, error |-> NoError]
NoStream == [created |-> FALSE, events |-> <<>>, pipes |-> 0, chunks |-> 0, ended |-> FALSE]

Response(status) == [t |-> "response", statusCode |-> status]
Args(error, res, body) == [error |-> error, res |-> res, body |-> body]

\* _callback without _.once: every invocation reaches the caller
callbackUnguarded(st, error, res, body) ==
  [st EXCEPT !.fired = TRUE, !.delivered = Append(@, Args(error, res, body))]

\* _callback = _.once(_callback): the caller's callback runs on the first
\* invocation only
_callback(st, error, res, body) ==
  IF st.fired THEN st
  ELSE [st EXCEPT !.fired = TRUE, !.delivered = Append(@, Args(error, res, body))]

\* callback of request(), up to the call of res.text()
callback(st, a) ==
  IF a.error # NoError THEN _callback(st, a.error, a.res, a.body)
  ELSE IF IsString(a.body) THEN _callback(st, NoError, a.res, handleResponse(a.body))
  ELSE [st EXCEPT !.reads = Append(@, [res |-> a.res, stage |-> "reading", failed |-> FALSE,
                                    text |-> Undefined])]

\* a catch handler that swallows the error
onTextRejectedSwallowed(st, err, res) == st

\* the catch handler of line 227
onTextRejected(st, err, res) == _callback(st, err, res, Undefined)

\* stream.emit(type)
emit(st, type) ==
  [st EXCEPT !.stream.events = Append(@, [type |-> type, returned |-> st.returned])]

\* the callback of requestStream() without the return of line 264
streamCallbackNoReturn(st, a) ==
  LET st1 == IF a.error # NoError THEN emit(st, "error") ELSE st
  IN IF a.body = Obj("PassThrough") THEN [st1 EXCEPT !.stream.pipes = @ + 1] ELSE st1

\* the callback of requestStream() without the instanceof test of line 267
streamCallbackPipeAny(st, a) ==
  IF a.error # NoError THEN emit(st, "error")
  ELSE [st EXCEPT !.stream.pipes = @ + 1]

\* the callback requestStream() gives to this._request
streamCallback(st, a) ==
  IF a.error # NoError THEN emit(st, "error")
  ELSE IF a.body = Obj("PassThrough") THEN [st EXCEPT !.stream.pipes = @ + 1]
  ELSE st

\* the callback of the call in progress, applied to each invocation in turn
RECURSIVE runAll(_, _, _)
runAll(op, st, calls) ==
  IF calls = <<>> THEN st
  ELSE runAll(op, IF op = "request" THEN callback(st, calls[1])
                  ELSE streamCallback(st, calls[1]), Tail(calls))

\* the state the handlers work on, as one record
World == [fired |-> fired, delivered |-> delivered, reads |-> reads,
          stream |-> stream, returned |-> pc = "returned", hs |-> hs,
          sent |-> sent, exec |-> exec, execInv |-> execInv,
          execCb |-> execCb, execSync |-> execSync, execThrew |-> execThrew,
          settled |-> settled]

Commit(w) ==
  /\ fired' = w.fired
  /\ delivered' = w.delivered
  /\ reads' = w.reads
  /\ stream' = w.stream
  /\ hs' = w.hs
  /\ sent' = w.sent
  /\ exec' = w.exec
  /\ execInv' = w.execInv
  /\ execCb' = w.execCb
  /\ execSync' = w.execSync
  /\ execThrew' = w.execThrew
  /\ settled' = w.settled

\* ------------------------------------------------------------------------
\* The transport executor
\* ------------------------------------------------------------------------

SeqsUpTo(S, n) == UNION {[1..k -> S] : k \in 0..n}

\* what a caller-supplied executor may pass to its callback: an error
\* (alone, or with a response and a body), or null with a response and a
\* body that is a string, a PassThrough or another object
CbArgs ==
  { Args("TransportError", Undefined, Undefined),
    Args("TransportError", Response(500), Obj("PassThrough")),
    Args(NoError, Response(200), Str(<<"x">>)),
    Args(NoError, Response(500), Obj("PassThrough")),
    Args(NoError, Response(200), Obj("Buffer")) }

\* what an executor does before it returns: the callback invocations it
\* makes synchronously, and whether it then throws.  An exception raised
\* inside the callback (stream.emit('error') with no listener yet) comes
\* out of the executor if the executor lets it: that is throws = TRUE after
\* the invocation.
\* a requestWrapper that reports a failure before it returns
requestWrapperSyncEager ==
  [calls |-> <<Args("TransportError", Undefined, Undefined)>>, throws |-> FALSE]

\* requestWrapper invokes its callback from the handlers of its fetch only
requestWrapperSync == [calls |-> <<>>, throws |-> FALSE]

SyncBehaviours ==
  IF _request = "requestWrapper" THEN {requestWrapperSync}
  ELSE {[calls |-> s, throws |-> t] :
          s \in SeqsUpTo(CbArgs, MaxExecCalls - Len(execCb)), t \in BOOLEAN}

\* fetch(uri, fetchOptions) in requestWrapper: the headers that go out are
\* those of new Headers(options.headers)
requestWrapperSends(desc) ==
  [via |-> "requestWrapper", uri |-> desc["uri"],
   headers |-> HeadersCopy(desc["headers"]).list]

\* this._request(desc, cb), b being what the executor does synchronously
invokeExecutor(w, desc, op, b) ==
  LET w1 == [w EXCEPT !.execInv = Append(@, desc),
                      !.execCb = @ \o b.calls,
                      !.execSync = @ + Len(b.calls),
                      !.execThrew = @ \/ b.throws,
                      !.exec = IF b.throws THEN "done" ELSE "inflight",
                      !.sent = IF _request = "requestWrapper"
                               THEN Append(@, requestWrapperSends(desc)) ELSE @]
  IN runAll(op, w1, b.calls)

\* the value this._request returns
executorReturns(desc) ==
  IF _request = "requestWrapper"
  THEN [t |-> "object", kind |-> "req", headers |-> HeadersCopy(desc["headers"]).list]
  ELSE Obj("custom")

\* the then handler of requestWrapper with the test of lines 52-56 in force
onFulfilledHttpError(status, kind) ==
  IF status \in 200..299 THEN Args(NoError, Response(status), Obj(kind))
  ELSE Args("HttpError", Response(status), Undefined)

\* the then handler of requestWrapper (lines 43-59)
onFulfilled(status, kind) == Args(NoError, Response(status), Obj(kind))

\* the catch handler of requestWrapper (lines 60-62)
onRejected(err) == Args(err, Undefined, Undefined)

\* ------------------------------------------------------------------------
\* ntlmHandshake
\* ------------------------------------------------------------------------

\* ntlm.createType1Message(authOpts)
Type1Message == <<"NTLM type1">>

\* the Type-2 challenges a server may answer with
Challenges == {<<"NTLM challenge-1">>, <<"NTLM challenge-2">>}

\* ntlm.createType3Message(ntlm.parseType2Message(auth), authOpts)
Type3Message(auth) == <<"NTLM type3 for " \o auth[1]>>

\* a handshake that sends its probe through this._request
ntlmHandshakeViaExecutor(w, rurl) ==
  [w EXCEPT !.hs.state = "inflight",
            !.execInv = Append(@, [uri |-> rurl.href, method |-> "GET",
                                   headers |-> HeadersFromObject(<<
                                      <<"Connection", <<"keep-alive">>>>,
                                      <<"Authorization", Type1Message>> >>)]),
            !.sent = IF _request = "requestWrapper"
                     THEN Append(@, [via |-> "requestWrapper", uri |-> rurl.href,
                                     headers |-> HeadersFromObject(<<
                                        <<"Connection", <<"keep-alive">>>>,
                                        <<"Authorization", Type1Message>> >>).list])
                     ELSE @]

\* fetch(rurl, {headers}) in ntlmHandshake (lines 276-281)
ntlmHandshake(w, rurl) ==
  [w EXCEPT !.hs.state = "inflight",
            !.sent = Append(@, [via |-> "ntlmHandshake", uri |-> rurl.href,
                                headers |-> HeadersFromObject(<<
                                   <<"Connection", <<"keep-alive">>>>,
                                   <<"Authorization", Type1Message>> >>).list])]

\* ntlmHandshake without the test of line 284
handshakeResultUnchecked(www) ==
  [state |-> "fulfilled", www |-> www, value |-> Type3Message(www), error |-> NoError]

\* the two then handlers of ntlmHandshake (lines 282-289), www being
\* response.headers.get('www-authenticate')
handshakeResult(www) ==
  IF www = NullHeader
  THEN [state |-> "rejected", www |-> www, value |-> NullHeader, error |-> "Stage1Error"]
  ELSE IF www \in Challenges
  THEN [state |-> "fulfilled", www |-> www, value |-> Type3Message(www), error |-> NoError]
  ELSE [state |-> "rejected", www |-> www, value |-> NullHeader, error |-> "Type2Error"]

\* exoptions !== undefined && exoptions.hasOwnProperty('ntlm')
usesNtlm(exoptions) == "ntlm" \in DOMAIN exoptions

\* request() without the else of line 250
startsExecutorAlways(exoptions) == TRUE

\* the if/else of lines 236-252: which of the two branches request() takes
startsHandshake(exoptions) == usesNtlm(exoptions)
startsExecutor(exoptions) == ~usesNtlm(exoptions)

\* ntlmOptions without the Authorization header of line 244
ntlmOptionsUnsigned(opts, auth) == opts

\* ntlmOptions of lines 243-245
ntlmOptions(opts, auth) ==
  [opts EXCEPT !["headers"] = HeadersSet(HeadersCopy(opts["headers"]), "Authorization", auth)]

\* ------------------------------------------------------------------------
\* The calls the model makes
\* ------------------------------------------------------------------------

Url == [href |-> "http://host:8080/svc", protocol |-> "http:", hostname |-> "host",
        port |-> <<8, 0, 8, 0>>]

Payload == Str(<<"a", "é">>)

Attachment == [name |-> "a.bin", contentId |-> "cid-1", mimetype |-> "image/png",
               body |-> Obj("ReadStream")]

CallerAuth == << <<"authorization", <<"Basic caller">>>> >>
CallerType == << <<"Content-Type", <<"text/xml", "action=\"urn:op\"">>>> >>
Credentials == Obj("credentials")

Arguments ==
  { [data |-> Payload, exheaders |-> <<>>, exoptions |-> <<>>],
    [data |-> Undefined, exheaders |-> CallerAuth, exoptions |-> <<>>],
    [data |-> Payload, exheaders |-> <<>>, exoptions |-> [ntlm |-> Credentials]],
    [data |-> Payload, exheaders |-> CallerAuth,
     exoptions |-> [ntlm |-> Credentials, forever |-> TRUE,
                    headers |-> << <<"X-Opt", <<"1">>>> >>]],
    [data |-> Payload, exheaders |-> <<>>, exoptions |-> [forceMTOM |-> TRUE]],
    [data |-> Payload, exheaders |-> CallerType,
     exoptions |-> [attachments |-> <<Attachment>>]] }

Calls == {[op |-> o, rurl |-> Url, data |-> a.data, exheaders |-> a.exheaders,
           exoptions |-> a.exoptions] : o \in {"request", "requestStream"}, a \in Arguments}

Statuses == {200, 500}
BodyKinds == {"PassThrough", "Gunzip"}
Texts == { <<"x">>,
           <<"x", "<", "s", ":", "E", ">", "<", "/", "s", ":", "E", ">", "x">> }
WwwAuthenticate == Challenges \cup {NullHeader, <<"Basic realm">>}

\* ------------------------------------------------------------------------
\* Init and the actions
\* ------------------------------------------------------------------------

Init ==
  /\ _request \in {"requestWrapper", "custom"}
  /\ pc = "idle"
  /\ call = NoCall
  /\ options = NoDescriptor
  /\ req = Undefined
  /\ fired = FALSE
  /\ delivered = <<>>
  /\ reads = <<>>
  /\ hs = NoHandshake
  /\ sent = <<>>
  /\ exec = "none"
  /\ execInv = <<>>
  /\ execCb = <<>>
  /\ execSync = 0
  /\ execThrew = FALSE
  /\ settled = <<>>
  /\ stream = NoStream

\* request(rurl, data, callback, exheaders, exoptions), lines 201-255
request(c, b) ==
  /\ pc = "idle"
  /\ c.op = "request"
  /\ call' = c
  /\ UNCHANGED _request
  /\ IF buildRequestThrows(c.rurl, c.data, c.exheaders, c.exoptions)
     THEN /\ pc' = "threw"
          /\ UNCHANGED << options, req >>
          /\ Commit(World)
     ELSE LET o == buildRequest(c.rurl, c.data, c.exheaders, c.exoptions, "uuid-1", "uuid-2")
              w1 == IF startsHandshake(c.exoptions) THEN ntlmHandshake(World, c.rurl) ELSE World
              w2 == IF startsExecutor(c.exoptions) THEN invokeExecutor(w1, o, "request", b) ELSE w1
          IN /\ options' = o
             /\ pc' = IF w2.execThrew THEN "threw" ELSE "returned"
             /\ req' = IF startsExecutor(c.exoptions) /\ ~w2.execThrew
                       THEN executorReturns(o) ELSE Undefined
             /\ Commit(w2)

\* requestStream(rurl, data, exheaders, exoptions), lines 257-273
requestStream(c, b) ==
  /\ pc = "idle"
  /\ c.op = "requestStream"
  /\ call' = c
  /\ UNCHANGED _request
  /\ IF buildRequestThrows(c.rurl, c.data, c.exheaders, c.exoptions)
     THEN /\ pc' = "threw"
          /\ UNCHANGED << options, req >>
          /\ Commit(World)
     ELSE LET o == buildRequest(c.rurl, c.data, c.exheaders, c.exoptions, "uuid-1", "uuid-2")
              w1 == [World EXCEPT !.stream.created = TRUE]
              w2 == invokeExecutor(w1, o, "requestStream", b)
          IN /\ options' = o
             /\ pc' = IF w2.execThrew THEN "threw" ELSE "returned"
             /\ req' = IF w2.execThrew THEN Undefined ELSE Obj("stream")
             /\ Commit(w2)

\* the fetch of requestWrapper resolves: its then handler runs
fetchFulfilled(status, kind) ==
  /\ _request = "requestWrapper"
  /\ exec = "inflight"
  /\ LET a == onFulfilled(status, kind)
         w == [World EXCEPT !.exec = "done", !.execCb = Append(@, a),
                            !.settled = Append(@, [kind |-> "fulfilled", status |-> status])]
     IN Commit(runAll(call.op, w, <<a>>))
  /\ UNCHANGED << _request, pc, call, options, req >>

\* the fetch of requestWrapper rejects: its catch handler runs
fetchRejected ==
  /\ _request = "requestWrapper"
  /\ exec = "inflight"
  /\ LET a == onRejected("TransportError")
         w == [World EXCEPT !.exec = "done", !.execCb = Append(@, a),
                            !.settled = Append(@, [kind |-> "rejected", status |-> 0])]
     IN Commit(runAll(call.op, w, <<a>>))
  /\ UNCHANGED << _request, pc, call, options, req >>

\* a caller-supplied executor invokes its callback after it returned
customCallback(a) ==
  /\ _request = "custom"
  /\ exec = "inflight"
  /\ Len(execCb) < MaxExecCalls
  /\ Commit(runAll(call.op, [World EXCEPT !.execCb = Append(@, a)], <<a>>))
  /\ UNCHANGED << _request, pc, call, options, req >>

\* a caller-supplied executor is through with the exchange
customDone ==
  /\ _request = "custom"
  /\ exec = "inflight"
  /\ Commit([World EXCEPT !.exec = "done"])
  /\ UNCHANGED << _request, pc, call, options, req >>

\* the probe of ntlmHandshake is answered: lines 282-289
probeFulfilled(www) ==
  /\ hs.state = "inflight"
  /\ Commit([World EXCEPT !.hs = handshakeResult(www)])
  /\ UNCHANGED << _request, pc, call, options, req >>

\* the probe of ntlmHandshake fails in transport
probeRejected ==
  /\ hs.state = "inflight"
  /\ Commit([World EXCEPT !.hs.state = "rejected", !.hs.error = "TransportError"])
  /\ UNCHANGED << _request, pc, call, options, req >>

\* a chain whose catch handler does not follow the then handler: what the
\* then handler throws is lost
thenSettlesUncaught(w, throws) == [w EXCEPT !.hs.state = "handled"]

\* the promise .then(...) of line 242 returns: rejected with what its handler
\* threw, so that the catch handler of line 249 runs, or fulfilled
thenSettles(w, throws) ==
  IF throws THEN [w EXCEPT !.hs.state = "rejected", !.hs.error = "ExecutorThrew"]
  ELSE [w EXCEPT !.hs.state = "handled"]

\* the then handler of request(), lines 242-248
ntlmThen(b) ==
  /\ hs.state = "fulfilled"
  /\ Commit(thenSettles(invokeExecutor(World, ntlmOptions(options, hs.value), "request", b),
                        b.throws))
  /\ UNCHANGED << _request, pc, call, options, req >>

\* the catch handler of request(), line 249
ntlmCatch ==
  /\ hs.state = "rejected"
  /\ Commit(callback([World EXCEPT !.hs.state = "handled"],
                     Args(hs.error, Undefined, Undefined)))
  /\ UNCHANGED << _request, pc, call, options, req >>

\* res.text() resolves: the catch handler of line 227 is skipped
textFulfilled(i, text) ==
  /\ i \in DOMAIN reads
  /\ reads[i].stage = "reading"
  /\ Commit([World EXCEPT !.reads[i].stage = "read", !.reads[i].text = Str(text)])
  /\ UNCHANGED << _request, pc, call, options, req >>

\* res.text() rejects: the catch handler of line 227 runs
textCatch(i) ==
  /\ i \in DOMAIN reads
  /\ reads[i].stage = "reading"
  /\ Commit(onTextRejected([World EXCEPT !.reads[i].stage = "caught",
                                           !.reads[i].failed = TRUE],
                           "ReadError", reads[i].res))
  /\ UNCHANGED << _request, pc, call, options, req >>

\* the then handler of line 228
textThen(i) ==
  /\ i \in DOMAIN reads
  /\ reads[i].stage \in {"read", "caught"}
  /\ Commit(_callback([World EXCEPT !.reads[i].stage = "done"],
                      NoError, reads[i].res, handleResponse(reads[i].text)))
  /\ UNCHANGED << _request, pc, call, options, req >>

\* body.pipe(stream), line 268: a chunk of a piped body reaches the stream
streamData ==
  /\ stream.pipes > 0
  /\ ~stream.ended
  /\ stream.chunks < MaxChunks
  /\ Commit(emit([World EXCEPT !.stream.chunks = @ + 1], "data"))
  /\ UNCHANGED << _request, pc, call, options, req >>

\* body.pipe(stream), line 268: a piped body ends, and ends the stream
streamEnd ==
  /\ stream.pipes > 0
  /\ ~stream.ended
  /\ Commit(emit([World EXCEPT !.stream.ended = TRUE], "end"))
  /\ UNCHANGED << _request, pc, call, options, req >>

Next ==
  \/ \E c \in Calls, b \in SyncBehaviours : request(c, b)
  \/ \E c \in Calls, b \in SyncBehaviours : requestStream(c, b)
  \/ \E status \in Statuses, kind \in BodyKinds : fetchFulfilled(status, kind)
  \/ fetchRejected
  \/ \E a \in CbArgs : customCallback(a)
  \/ customDone
  \/ \E www \in WwwAuthenticate : probeFulfilled(www)
  \/ probeRejected
  \/ \E b \in SyncBehaviours : ntlmThen(b)
  \/ ntlmCatch
  \/ \E i \in 1..MaxExecCalls, text \in Texts : textFulfilled(i, text)
  \/ \E i \in 1..MaxExecCalls : textCatch(i)
  \/ \E i \in 1..MaxExecCalls : textThen(i)
  \/ streamData
  \/ streamEnd

Spec == Init /\ [][Next]_vars

\* ------------------------------------------------------------------------
\* buildRequest on its own: one call, with arguments drawn from the sets
\* below; options holds the descriptor it returns
\* ------------------------------------------------------------------------

\* URLs: no port, the scheme's default port written out, another port, and a
\* port written with leading zeros
Urls ==
  { Url,
    [href |-> "http://host/svc", protocol |-> "http:", hostname |-> "host", port |-> <<>>],
    [href |-> "http://host:80/svc", protocol |-> "http:", hostname |-> "host",
     port |-> <<8, 0>>],
    [href |-> "https://host/svc", protocol |-> "https:", hostname |-> "host", port |-> <<>>],
    [href |-> "https://host:443/svc", protocol |-> "https:", hostname |-> "host",
     port |-> <<4, 4, 3>>],
    [href |-> "https://host:0080/svc", protocol |-> "https:", hostname |-> "host",
     port |-> <<0, 0, 8, 0>>] }

Payloads == {Undefined, Str(<<>>), Payload, Str(<<"€", "E", "x">>), Obj("Readable")}

Attachments ==
  { Attachment,
    [name |-> "b.txt", contentId |-> "cid-2", mimetype |-> "text/plain",
     body |-> Obj("ReadStream")] }

ExHeaders ==
  { <<>>, CallerAuth, CallerType,
    << <<"content-type", <<"text/xml">>>>, <<"SOAPAction", <<"urn:op">>>> >>,
    << <<"Content-Length", <<"0">>>> >> }

OtherOptions ==
  { <<>>,
    [forceMTOM |-> TRUE],
    [forceMTOM |-> FALSE, forever |-> TRUE],
    [headers |-> << <<"X-Opt", <<"1">>>> >>, timeout |-> "5000"],
    [headers |-> << <<"Content-Type", <<"text/plain">>>>, <<"Host", <<"other">>>> >>,
     ntlm |-> Credentials],
    [body |-> Obj("override")] }

ExOptions ==
  OtherOptions
  \cup { [attachments |-> a] @@ o : a \in SeqsUpTo(Attachments, MaxAttachments),
                                   o \in OtherOptions }

BuildCalls ==
  { [op |-> "buildRequest", rurl |-> u, data |-> d, exheaders |-> h, exoptions |-> o] :
      u \in Urls, d \in Payloads, h \in ExHeaders, o \in ExOptions }

\* the values uuid() may return
Uuids == {"uuid-1", "uuid-2"}

InitBuild ==
  /\ _request = "requestWrapper"
  /\ pc = "idle"
  /\ call \in BuildCalls
  /\ options = NoDescriptor
  /\ req = Undefined
  /\ fired = FALSE
  /\ delivered = <<>>
  /\ reads = <<>>
  /\ hs = NoHandshake
  /\ sent = <<>>
  /\ exec = "none"
  /\ execInv = <<>>
  /\ execCb = <<>>
  /\ execSync = 0
  /\ execThrew = FALSE
  /\ settled = <<>>
  /\ stream = NoStream

BuildUnchanged ==
  UNCHANGED << _request, call, req, fired, delivered, reads, hs, sent, exec, execInv,
               execCb, execSync, execThrew, settled, stream >>

\* buildRequest returns its descriptor
buildReturns(start, boundary) ==
  /\ pc = "idle"
  /\ ~buildRequestThrows(call.rurl, call.data, call.exheaders, call.exoptions)
  /\ options' = buildRequest(call.rurl, call.data, call.exheaders, call.exoptions,
                             start, boundary)
  /\ pc' = "returned"
  /\ BuildUnchanged

\* buildRequest throws the TypeError of line 131
buildThrows ==
  /\ pc = "idle"
  /\ buildRequestThrows(call.rurl, call.data, call.exheaders, call.exoptions)
  /\ options' = NoDescriptor
  /\ pc' = "threw"
  /\ BuildUnchanged

NextBuild ==
  \/ \E start \in Uuids, boundary \in Uuids : buildReturns(start, boundary)
  \/ buildThrows

SpecBuild == InitBuild /\ [][NextBuild]_vars

\* ------------------------------------------------------------------------
\* Properties
\* ------------------------------------------------------------------------

\* nothing of the call is pending any more
Terminated ==
  /\ pc # "idle"
  /\ hs.state \in {"none", "handled"}
  /\ exec \in {"none", "done"}
  /\ \A i \in DOMAIN reads : reads[i].stage = "done"

\* request() got past buildRequest
Requested == call.op = "request" /\ options # NoDescriptor

\* C1: for a request() call whose executor, if invoked, invokes its callback
\* exactly once, the caller's callback never runs twice, and when nothing of
\* the call is pending any more it has run exactly once.
C1_ExactlyOnce ==
  Requested =>
    /\ Len(execCb) <= 1 => Len(delivered) <= 1
    /\ (Terminated /\ (execInv # <<>> => Len(execCb) = 1)) => Len(delivered) = 1

\* C1 witness: the path through a failed res.text() has ended, with one
\* invocation.
C1_Witness ==
  /\ Requested /\ Terminated /\ Len(execCb) = 1 /\ Len(delivered) = 1
  /\ reads # <<>> /\ reads[1].failed

\* C2: when the probe response has no WWW-Authenticate header, the caller's
\* callback receives the handshake error and this._request is never invoked.
C2_NoChallenge ==
  (Requested /\ hs.www = NullHeader) =>
    /\ execInv = <<>>
    /\ exec = "none"
    /\ hs.state \in {"rejected", "handled"}
    /\ hs.state = "handled" =>
         delivered = <<Args("Stage1Error", Undefined, Undefined)>>

C2_Witness ==
  /\ Requested /\ hs.www = NullHeader /\ hs.state = "handled"
  /\ delivered = <<Args("Stage1Error", Undefined, Undefined)>> /\ execInv = <<>>

\* C3: after a valid Type-2 challenge this._request is invoked exactly
\* once, with the Type-3 message of that challenge as Authorization header
\* (not the Type-1 message, not the caller's header), every other header
\* of the header list and every other field being those of the built
\* descriptor.
C3_Type3 ==
  (Requested /\ hs.www \in Challenges) =>
    /\ hs.state = "fulfilled" => execInv = <<>>
    /\ hs.state # "fulfilled" =>
         /\ Len(execInv) = 1
         /\ LET d == execInv[1] IN
              /\ HeadersGet(d["headers"], "Authorization") = Type3Message(hs.www)
              /\ HeadersGet(d["headers"], "Authorization") # Type1Message
              /\ DOMAIN d["headers"].list = DOMAIN options["headers"].list \cup {"authorization"}
              /\ \A n \in DOMAIN options["headers"].list \ {"authorization"} :
                   d["headers"].list[n] = options["headers"].list[n]
              /\ DOMAIN d = DOMAIN options
              /\ \A k \in DOMAIN options \ {"headers"} : d[k] = options[k]

C3_Witness ==
  /\ Requested /\ hs.www \in Challenges /\ hs.state = "handled"
  /\ HeadersGet(options["headers"], "Authorization") = <<"Basic caller">>
  /\ Len(execInv) = 1
  /\ HeadersGet(execInv[1]["headers"], "Authorization") = Type3Message(hs.www)

\* the exchanges of the call: the probe of the handshake and the
\* invocations of this._request
Exchanges == (IF hs.state = "none" THEN 0 ELSE 1) + Len(execInv)

\* the handshake exchange, the real exchange: started and not yet over
HandshakeOutstanding == hs.state = "inflight"
RealOutstanding == exec = "inflight"

\* C4 as stated: at most one exchange on the plain path; on the NTLM path
\* the real exchange starts only after the handshake exchange is over, the
\* two are never outstanding together, and there are exactly two exchanges.
C4_TwoExchanges ==
  Requested =>
    IF usesNtlm(call.exoptions)
    THEN /\ ~(HandshakeOutstanding /\ RealOutstanding)
         /\ execInv # <<>> => hs.state \in {"rejected", "handled"}
         /\ Terminated => Exchanges = 2
    ELSE Exchanges <= 1

\* C4 as amended: ... and there are exactly two exchanges when the
\* handshake yields a Type-3 message, and only the handshake exchange when
\* it fails.
C4_Sequential ==
  Requested =>
    IF usesNtlm(call.exoptions)
    THEN /\ ~(HandshakeOutstanding /\ RealOutstanding)
         /\ execInv # <<>> => hs.state \in {"rejected", "handled"} /\ hs.www \in Challenges
         /\ Len(execInv) <= 1
         /\ Terminated => Exchanges = IF hs.www \in Challenges THEN 2 ELSE 1
    ELSE /\ Exchanges <= 1
         /\ hs.state = "none"

C4_Witness ==
  /\ Requested /\ usesNtlm(call.exoptions) /\ Terminated
  /\ hs.www \in Challenges /\ Exchanges = 2 /\ settled # <<>>

\* C5: on request() and on requestStream() alike, an ntlm key in
\* extraOptions puts a handshake exchange before the real exchange, and no
\* handshake exchange is made without the key.
C5_HandshakeOnBothCalls ==
  (pc # "idle" /\ options # NoDescriptor) =>
    IF usesNtlm(call.exoptions)
    THEN /\ hs.state # "none"
         /\ execInv # <<>> => hs.state \in {"rejected", "handled"}
    ELSE hs.state = "none"

\* C6 as stated: requestWrapper invokes callback(null, response, body) for
\* every fetch that resolves, whatever the status, request() then delivers
\* error = null with that status, and only a rejected fetch gives
\* callback(error).
C6_StatusIsNoError ==
  (_request = "requestWrapper" /\ options # NoDescriptor) =>
    /\ Len(execCb) = Len(settled)
    /\ \A i \in DOMAIN settled :
         /\ settled[i].kind = "fulfilled" =>
              execCb[i].error = NoError /\ execCb[i].res = Response(settled[i].status)
         /\ execCb[i].error # NoError => settled[i].kind = "rejected"
    /\ (call.op = "request" /\ settled # <<>> /\ settled[1].kind = "fulfilled") =>
         /\ Terminated => delivered # <<>>
         /\ delivered # <<>> =>
              delivered[1].error = NoError /\ delivered[1].res = Response(settled[1].status)

\* C6 as amended: ... request() then delivers error = null with that
\* status unless reading the body fails, in which case it delivers the read
\* error with the response ...
C6_StatusIsNoErrorUnlessReadFails ==
  (_request = "requestWrapper" /\ options # NoDescriptor) =>
    /\ Len(execCb) = Len(settled)
    /\ \A i \in DOMAIN settled :
         /\ settled[i].kind = "fulfilled" =>
              execCb[i].error = NoError /\ execCb[i].res = Response(settled[i].status)
         /\ execCb[i].error # NoError => settled[i].kind = "rejected"
    /\ (call.op = "request" /\ settled # <<>> /\ settled[1].kind = "fulfilled") =>
         /\ Terminated => delivered # <<>>
         /\ delivered # <<>> =>
              IF reads[1].failed
              THEN delivered = <<Args("ReadError", Response(settled[1].status), Undefined)>>
              ELSE delivered[1].error = NoError /\ delivered[1].res = Response(settled[1].status)

C6_Witness ==
  /\ _request = "requestWrapper" /\ call.op = "request" /\ Terminated
  /\ settled = <<[kind |-> "fulfilled", status |-> 500]>>
  /\ Len(delivered) = 1 /\ delivered[1].error = NoError
  /\ delivered[1].res.statusCode = 500

\* C7: when the one invocation of callback is a success with a body that is
\* not a string and res.text() fails, the caller receives exactly that
\* error, with the response, and no invocation with error = null, also
\* after the then handler of line 228 has run.
C7_ReadError ==
  (Requested /\ Len(execCb) = 1 /\ ~execThrew /\ reads # <<>> /\ reads[1].failed) =>
    delivered = <<Args("ReadError", execCb[1].res, Undefined)>>

C7_Witness ==
  /\ Requested /\ Len(execCb) = 1 /\ ~execThrew /\ exec = "done"
  /\ reads # <<>> /\ reads[1].failed /\ reads[1].stage = "done"
  /\ delivered = <<Args("ReadError", execCb[1].res, Undefined)>>

Streamed == call.op = "requestStream" /\ stream.created

\* C8 as stated: with any executor, requestStream() has returned the stream
\* before any event is emitted on it.
C8_EventsAfterReturn ==
  Streamed =>
    /\ ~execThrew => pc = "returned"
    /\ \A i \in DOMAIN stream.events : stream.events[i].returned

\* C8 as amended: with requestWrapper, or with an executor that invokes its
\* callback only after it has returned, requestStream() has returned the
\* stream before the exchange resolves and before any event is emitted.
C8_EventsAfterReturnAsync ==
  Streamed =>
    /\ _request = "requestWrapper" => execSync = 0 /\ ~execThrew
    /\ (execSync = 0 /\ ~execThrew) =>
         /\ pc = "returned"
         /\ \A i \in DOMAIN stream.events : stream.events[i].returned

C8_Witness ==
  /\ Streamed /\ _request = "requestWrapper" /\ pc = "returned"
  /\ \E i \in DOMAIN stream.events : stream.events[i].type = "error"

IsErrorCall(a) == a.error # NoError
IsPipedCall(a) == a.error = NoError /\ a.body = Obj("PassThrough")
ErrorCalls == {i \in DOMAIN execCb : IsErrorCall(execCb[i])}
PipedCalls == {i \in DOMAIN execCb : IsPipedCall(execCb[i])}
ErrorEvents == {i \in DOMAIN stream.events : stream.events[i].type = "error"}

\* C9: every error the executor reports is emitted as an error event on the
\* stream, and an invocation that reports an error pipes no body into it.
C9_StreamError ==
  Streamed =>
    /\ Cardinality(ErrorEvents) = Cardinality(ErrorCalls)
    /\ stream.pipes = Cardinality(PipedCalls)
    /\ (\A i \in DOMAIN execCb : IsErrorCall(execCb[i])) =>
         \A i \in DOMAIN stream.events : stream.events[i].type = "error"

C9_Witness ==
  /\ Streamed /\ exec = "done"
  /\ execCb = <<Args("TransportError", Response(500), Obj("PassThrough"))>>
  /\ stream.events = <<[type |-> "error", returned |-> TRUE]>>
  /\ stream.pipes = 0

\* C10: as long as every invocation the executor made is a success with a
\* body that is not a PassThrough, the stream has emitted nothing: no data,
\* no end, no error.
C10_SilentStream ==
  (Streamed /\ \A i \in DOMAIN execCb : ~IsErrorCall(execCb[i]) /\ ~IsPipedCall(execCb[i])) =>
    /\ stream.events = <<>>
    /\ stream.pipes = 0
    /\ ~stream.ended

C10_Witness ==
  /\ Streamed /\ Terminated /\ pc = "returned"
  /\ Len(execCb) = 1 /\ ~IsErrorCall(execCb[1]) /\ ~IsPipedCall(execCb[1])
  /\ stream.events = <<>>


\* ------------------------------------------------------------------------
\* handleResponse on its own: one call, on a body drawn from the set below;
\* req holds what it returns
\* ------------------------------------------------------------------------

\* the pieces a body is made of: text, white space, a comment, an XML
\* declaration, an opening Envelope tag, its closing tag, and the closing
\* tag in the other letter case
Segments ==
  { <<"x">>,
    <<" ">>,
    <<"<", "!", "-", "-", "x", "-", "-", ">">>,
    <<"<", "?", "x", "?", ">">>,
    <<"<", "s", ":", "E", ">">>,
    <<"<", "/", "s", ":", "E", ">">>,
    <<"<", "/", "S", ":", "e", ">">> }

RECURSIVE Concat(_)
Concat(pieces) == IF pieces = <<>> THEN <<>> ELSE pieces[1] \o Concat(Tail(pieces))

Bodies ==
  {Str(Concat(pieces)) : pieces \in SeqsUpTo(Segments, MaxSegments)}
  \cup {Undefined, Obj("Buffer")}

InitResponse ==
  /\ _request = "requestWrapper"
  /\ pc = "idle"
  /\ call \in {[op |-> "handleResponse", body |-> b] : b \in Bodies}
  /\ options = NoDescriptor
  /\ req = Undefined
  /\ fired = FALSE
  /\ delivered = <<>>
  /\ reads = <<>>
  /\ hs = NoHandshake
  /\ sent = <<>>
  /\ exec = "none"
  /\ execInv = <<>>
  /\ execCb = <<>>
  /\ execSync = 0
  /\ execThrew = FALSE
  /\ settled = <<>>
  /\ stream = NoStream

\* handleResponse returns
handleResponseReturns ==
  /\ pc = "idle"
  /\ req' = handleResponse(call.body)
  /\ pc' = "returned"
  /\ UNCHANGED << _request, call, options, fired, delivered, reads, hs, sent, exec,
                  execInv, execCb, execSync, execThrew, settled, stream >>

NextResponse == handleResponseReturns

SpecResponse == InitResponse /\ [][NextResponse]_vars

\* ------------------------------------------------------------------------
\* Properties of buildRequest (under SpecBuild)
\* ------------------------------------------------------------------------

Built == call.op = "buildRequest" /\ pc = "returned"

\* the plain encoding's case: a string payload, no attachment, no forceMTOM
PlainCase ==
  /\ IsString(call.data)
  /\ Len(attachmentsOf(call.exoptions)) = 0
  /\ ~Opt(call.exoptions, "forceMTOM", FALSE)

\* whether the caller's extra headers name a header, in any letter case
Names(pairs, name) == \E i \in 1..Len(pairs) : Lower(pairs[i][1]) = Lower(name)

FormType == <<"application/x-www-form-urlencoded">>

\* C11 as stated: for a string payload with no attachment and no forced
\* multipart the descriptor's body is the payload, its Content-Length the
\* payload's UTF-8 byte length and its Content-Type the form type, whatever
\* the extra headers and extra options are.  The payloads are "" (0 bytes),
\* "aé" (3 bytes) and "€Envelopex" (12 bytes).
C11_PlainAlways ==
  (Built /\ PlainCase) =>
    /\ options.body = call.data
    /\ HeadersGet(options.headers, "Content-Length")
         = << CASE call.data.s = <<>> -> "0"
                [] call.data.s = <<"a", "é">> -> "3"
                [] OTHER -> "12" >>
    /\ HeadersGet(options.headers, "Content-Type") = FormType

\* C11 amended: the same, except that an extra header named Content-Length
\* or Content-Type (in any letter case) replaces the built one, and an extra
\* option named body replaces the payload
C11_PlainUnlessOverridden ==
  (Built /\ PlainCase) =>
    /\ options.body = Opt(call.exoptions, "body", call.data)
    /\ ~Names(call.exheaders, "Content-Length") =>
          HeadersGet(options.headers, "Content-Length")
            = << CASE call.data.s = <<>> -> "0"
                   [] call.data.s = <<"a", "é">> -> "3"
                   [] OTHER -> "12" >>
    /\ ~Names(call.exheaders, "Content-Type") =>
          HeadersGet(options.headers, "Content-Type") = FormType
    /\ \A i \in 1..Len(call.exheaders) :
          Lower(call.exheaders[i][1]) \in {"content-length", "content-type"} =>
            HeadersGet(options.headers, call.exheaders[i][1]) = call.exheaders[i][2]

\* a two-character payload of three bytes was built with no override, next
\* to extra headers and extra options that name other things
C11_Witness ==
  /\ Built /\ PlainCase
  /\ call.data = Payload
  /\ call.exheaders = CallerAuth
  /\ "timeout" \in DOMAIN call.exoptions
  /\ HeadersGet(options.headers, "Content-Length") = <<"3">>
  /\ options.body = Payload



\* the multipart encoding's case: an attachment is present or forceMTOM is set
MultipartCase ==
  \/ "forceMTOM" \in DOMAIN call.exoptions /\ call.exoptions.forceMTOM
  \/ "attachments" \in DOMAIN call.exoptions /\ call.exoptions.attachments # <<>>

\* what C12 says of a descriptor: 1 + len(attachments) parts, the primary part
\* first with the Content-ID the outer Content-Type names as start, then one
\* part per attachment, in order, with that attachment's contentId in angle
\* brackets
MultipartShape ==
  /\ "multipart" \in DOMAIN options
  /\ Len(options.multipart) = 1 + Len(attachmentsOf(call.exoptions))
  /\ options.multipart[1].body = call.data
  /\ HeadersGet(options.headers, "Content-Type")[3]
       = "start=\"" \o options.multipart[1]["Content-ID"] \o "\""
  /\ \A i \in 1..Len(attachmentsOf(call.exoptions)) :
        options.multipart[i + 1]["Content-ID"]
          = "<" \o attachmentsOf(call.exoptions)[i].contentId \o ">"

\* C12 as stated: for any payload with an attachment or forced multipart,
\* buildRequest returns a descriptor of that shape, whether or not the caller
\* supplied a Content-Type header
C12_MultipartParts ==
  (call.op = "buildRequest" /\ pc # "idle" /\ MultipartCase) =>
    (pc = "returned" /\ MultipartShape)



\* C13 as stated: multipart only for a string payload with attachments or
\* forceMTOM, plain for a string payload with neither, and for a payload that
\* is not a string always a descriptor with the payload as body, no multipart
\* and no inferred Content-Type, whatever attachments and forceMTOM are
C13_EncodingByPayload ==
  (call.op = "buildRequest" /\ pc # "idle") =>
    /\ (pc = "returned" /\ "multipart" \in DOMAIN options) =>
          (IsString(call.data) /\ MultipartCase)
    /\ ~IsString(call.data) =>
          /\ pc = "returned"
          /\ "multipart" \notin DOMAIN options
          /\ "body" \in DOMAIN options
          /\ options.body = Opt(call.exoptions, "body", call.data)
          /\ ~Names(call.exheaders, "Content-Type") =>
                HeadersGet(options.headers, "Content-Type") = NullHeader

\* C13 amended: attachments or forceMTOM select the multipart branch for any
\* payload, string or not (the payload is the primary part's body and no body
\* field is assigned unless an extra option supplies one; the branch throws
\* when no Content-Type header is there); without them a string payload is
\* sent plain and any other payload is passed through as the body, with no
\* multipart and no inferred Content-Type or Content-Length
C13_EncodingByOptions ==
  (call.op = "buildRequest" /\ pc # "idle") =>
    /\ pc \in {"returned", "threw"}
    /\ pc = "threw" => (MultipartCase /\ ~Names(call.exheaders, "Content-Type"))
    /\ pc = "returned" =>
          /\ "multipart" \in DOMAIN options <=> MultipartCase
          /\ MultipartCase =>
                /\ options.multipart[1].body = call.data
                /\ "body" \in DOMAIN options <=> "body" \in DOMAIN call.exoptions
                /\ HeadersGet(options.headers, "Content-Type")[1] = "multipart/related"
          /\ ~MultipartCase =>
                /\ options.body = Opt(call.exoptions, "body", call.data)
                /\ ~Names(call.exheaders, "Content-Type") =>
                      HeadersGet(options.headers, "Content-Type")
                        = IF IsString(call.data) THEN FormType ELSE NullHeader
                /\ ~Names(call.exheaders, "Content-Length") =>
                      (HeadersGet(options.headers, "Content-Length") = NullHeader
                         <=> ~IsString(call.data))

\* a payload that is not a string was built into a multipart descriptor
\* because an attachment came with it
C13_Witness ==
  /\ Built
  /\ call.data = Obj("Readable")
  /\ ~Opt(call.exoptions, "forceMTOM", FALSE)
  /\ Len(attachmentsOf(call.exoptions)) = 1
  /\ options.multipart[1].body = Obj("Readable")
  /\ Len(options.multipart) = 2



\* the pairs of exoptions.headers
OptionHeaders == Opt(call.exoptions, "headers", <<>>)

\* every extra option except attachments and headers is on the descriptor as
\* given, and the headers built before are all still there
OptionsCopied ==
  /\ \A k \in DOMAIN call.exoptions \ {"attachments", "headers"} :
        k \in DOMAIN options /\ options[k] = call.exoptions[k]
  /\ "attachments" \notin DOMAIN options
  /\ \A n \in {"User-Agent", "Accept", "Accept-Encoding", "Accept-Charset",
                "Connection", "Host"} :
        HeadersGet(options.headers, n) # NullHeader

\* C14 as stated: after buildRequest every key of exoptions.headers is in the
\* outgoing header set with the given value, as headers.get reads it, the
\* headers built before and not named there are kept, and every other extra
\* option except attachments is copied onto the descriptor
C14_OptionHeadersMerged ==
  Built =>
    /\ \A i \in 1..Len(OptionHeaders) :
          HeadersGet(options.headers, OptionHeaders[i][1]) = OptionHeaders[i][2]
    /\ OptionsCopied



\* the port the URL writes is its scheme's default one
WritesDefaultPort ==
  /\ call.rurl.port # <<>>
  /\ \/ call.rurl.protocol = "http:" /\ parseInt(call.rurl.port) = 80
     \/ call.rurl.protocol = "https:" /\ parseInt(call.rurl.port) = 443

HostWithPort == call.rurl.hostname \o ":" \o ToString(parseInt(call.rurl.port))

\* C16 as stated: the Host header is the hostname, followed by ':port' only
\* when the URL names a port that is not the scheme's default; no port, or
\* the default port written out, gives the bare hostname
C16_HostOmitsDefaultPort ==
  (Built /\ ~Names(call.exheaders, "Host")) =>
    HeadersGet(options.headers, "Host")
      = << IF call.rurl.port = <<>> \/ WritesDefaultPort
           THEN call.rurl.hostname ELSE HostWithPort >>

\* C16 amended: the Host header is the hostname followed by ':port' whenever
\* the URL writes a port, the scheme's default port included (the port in
\* decimal, without leading zeros), and the bare hostname when it writes none
C16_HostKeepsWrittenPort ==
  (Built /\ ~Names(call.exheaders, "Host")) =>
    HeadersGet(options.headers, "Host")
      = << IF call.rurl.port = <<>> THEN call.rurl.hostname ELSE HostWithPort >>

\* a URL that writes the default port of http was built into Host host:80
C16_Witness ==
  /\ Built
  /\ call.rurl.href = "http://host:80/svc"
  /\ WritesDefaultPort
  /\ HeadersGet(options.headers, "Host") = <<"host:80">>



\* ------------------------------------------------------------------------
\* Properties of handleResponse (under SpecResponse)
\* ------------------------------------------------------------------------

Handled == call.op = "handleResponse" /\ pc = "returned"

\* s[j] is the < of an opening tag <prefix:Envelope whose colon is at c
IsOpening(s, j, c) ==
  /\ s[j] = "<"
  /\ s[c] = ":"
  /\ \A x \in (j + 1)..(c - 1) : s[x] # ":"
  /\ c + 1 <= Len(s)
  /\ Fold(s[c + 1]) = "e"

\* a closing tag </prefix:Envelope> of that opening tag stands at k, in
\* either letter case
IsClosing(s, j, c, k) ==
  /\ k >= c + 2
  /\ k + (c - j) + 3 <= Len(s)
  /\ Fold(s[k]) = "<" /\ Fold(s[k + 1]) = "/"
  /\ \A x \in 1..(c - j - 1) : Fold(s[k + 1 + x]) = Fold(s[j + x])
  /\ s[k + (c - j) + 1] = ":"
  /\ Fold(s[k + (c - j) + 2]) = "e"
  /\ s[k + (c - j) + 3] = ">"

\* an XML declaration <?...?> starts at i and, with the white space after
\* it, ends right before j
IsDeclaration(s, i, j) ==
  /\ i + 1 <= Len(s)
  /\ s[i] = "<" /\ s[i + 1] = "?"
  /\ \E q \in (i + 2)..(j - 2) :
        /\ s[q] = "?" /\ s[q + 1] = ">"
        /\ \A x \in (i + 2)..(q - 1) : s[x] # "?"
        /\ \A x \in (q + 2)..(j - 1) : s[x] = " "

\* every envelope in s: i where it starts (at its declaration, if it has
\* one), j where its opening tag starts, e where a closing tag of it ends
Envelopes(s) ==
  UNION { { [i |-> i, j |-> oc[1], e |-> k + (oc[2] - oc[1]) + 3] :
              i \in {oc[1]} \cup {d \in 1..(oc[1] - 1) : IsDeclaration(s, d, oc[1])},
              k \in {k \in 1..Len(s) : IsClosing(s, oc[1], oc[2], k)} } :
          oc \in {oc \in (1..Len(s)) \X (1..Len(s)) :
                    oc[1] < oc[2] /\ IsOpening(s, oc[1], oc[2])} }

\* the body with its first comment taken out, which is the text the
\* envelope is looked for in
Searched == removeComment(call.body.s)

\* C15: when the text holds an envelope (an opening tag <prefix:Envelope and
\* a closing tag of the same prefix, in any letter case, with an optional
\* XML declaration before it), handleResponse returns exactly the piece of
\* the text from the first place an envelope starts, declaration included,
\* to the end of the last closing tag that matches it; when it holds none,
\* or the body is not a string, it returns the body unchanged
C15_Extracts ==
  Handled =>
    IF ~IsString(call.body) THEN req = call.body
    ELSE IF Envelopes(Searched) = {} THEN req = call.body
    ELSE \E m \in Envelopes(Searched) :
           /\ req = Str(SubSeq(Searched, m.i, m.e))
           /\ \A n \in Envelopes(Searched) :
                 /\ n.i >= m.i
                 /\ n.i = m.i => n.j <= m.j
                 /\ (n.i = m.i /\ n.j = m.j) => n.e <= m.e

\* text and an envelope with two closing tags in different letter case: the
\* text before the opening tag is dropped and the match runs to the second
\* closing tag
C15_Witness ==
  /\ Handled
  /\ call.body = Str(<<"x", "<", "s", ":", "E", ">",
                       "<", "/", "s", ":", "E", ">", "<", "/", "S", ":", "e", ">">>)
  /\ req = Str(<<"<", "s", ":", "E", ">",
                 "<", "/", "s", ":", "E", ">", "<", "/", "S", ":", "e", ">">>)

\* whether s holds a comment block <!-- ... -->
HasComment(s) ==
  \E i \in 1..Len(s) :
    /\ At(s, i, <<"<", "!", "-", "-">>)
    /\ \E j \in (i + 4)..Len(s) : At(s, j, <<"-", "-", ">">>)

\* C18 as stated: whenever an envelope is matched, the body handleResponse
\* returns holds no comment block, however many the body held
C18_NoCommentLeft ==
  (Handled /\ IsString(call.body) /\ Envelopes(Searched) # {}) => ~HasComment(req.s)



\* ------------------------------------------------------------------------
\* Properties of the executor contract (under Spec)
\* ------------------------------------------------------------------------

\* C17: the caller's callback fires at most once in every reachable state,
\* whatever the executor does: it may invoke its callback several times,
\* with a success and then an error, and may throw after invoking it
C17_AtMostOnce ==
  /\ Len(delivered) <= 1
  /\ delivered # <<>> => fired

\* on the NTLM path a caller-supplied executor invoked its callback with a
\* success, then with an error, and then threw, so that the catch handler
\* called back a third time: the caller's callback ran once, with the
\* success
C17_Witness ==
  /\ Requested
  /\ hs.state = "handled"
  /\ execThrew
  /\ Len(execCb) = 2
  /\ execCb[1].error = NoError /\ IsString(execCb[1].body)
  /\ execCb[2].error # NoError
  /\ Len(delivered) = 1
  /\ delivered[1].error = NoError



\* the handshake produced the Type-3 message
HandshakeSucceeded == hs.value # NullHeader

\* C19: a caller-supplied executor is invoked at most once per request()
\* call: once on the plain path, once after a handshake that succeeded, not
\* at all while the handshake is under way or after it failed; and the
\* handshake's probe is never given to the executor: it is the one exchange
\* sent, by the built-in fetch of ntlmHandshake
C19_ExecutorOncePerCall ==
  (_request = "custom" /\ Requested) =>
    /\ Len(execInv) <= 1
    /\ \A i \in 1..Len(execInv) :
          /\ execInv[i].uri = call.rurl.href
          /\ execInv[i].method \in {"GET", "POST"}
          /\ HeadersGet(execInv[i].headers, "Authorization") # Type1Message
    /\ "ntlm" \notin DOMAIN call.exoptions =>
          /\ Len(execInv) = 1
          /\ sent = <<>>
    /\ "ntlm" \in DOMAIN call.exoptions =>
          /\ Len(sent) = 1
          /\ sent[1].via = "ntlmHandshake"
          /\ sent[1].headers["authorization"] = Type1Message
          /\ hs.state \in {"inflight", "fulfilled"} => execInv = <<>>
          /\ ~HandshakeSucceeded => execInv = <<>>
          /\ hs.state = "handled" => (Len(execInv) = 1 <=> HandshakeSucceeded)

\* a handshake succeeded and its then handler gave the signed descriptor to
\* the caller-supplied executor, once; the probe went out by fetch
C19_Witness ==
  /\ _request = "custom" /\ Requested
  /\ hs.state = "handled" /\ HandshakeSucceeded
  /\ Len(execInv) = 1
  /\ HeadersGet(execInv[1].headers, "Authorization") = Type3Message(hs.www)
  /\ Len(sent) = 1 /\ sent[1].via = "ntlmHandshake"

\* C20: what a caller-supplied executor throws synchronously is, on the NTLM
\* path, caught inside the promise chain and handed to the caller's callback
\* as an error, unless that callback has fired already, while request() has
\* returned normally; on the plain path it leaves request() as an exception
\* and the caller's callback is never invoked with it
C20_ExecutorThrows ==
  (Requested /\ execThrew) =>
    /\ "ntlm" \in DOMAIN call.exoptions =>
          /\ pc = "returned"
          /\ hs.state \in {"rejected", "handled"}
          /\ hs.error = "ExecutorThrew"
          /\ Len(delivered) <= 1
          /\ hs.state = "handled" =>
                /\ Len(delivered) = 1
                /\ execSync = 0 =>
                      delivered = <<Args("ExecutorThrew", Undefined, Undefined)>>
                /\ delivered[1].error = "ExecutorThrew" =>
                      \A i \in 1..execSync : /\ execCb[i].error = NoError
                                              /\ ~IsString(execCb[i].body)
    /\ "ntlm" \notin DOMAIN call.exoptions =>
          /\ pc = "threw"
          /\ hs = NoHandshake
          /\ \A i \in 1..Len(delivered) : delivered[i].error # "ExecutorThrew"
          /\ execSync = 0 => delivered = <<>>

\* on the NTLM path the executor threw before invoking its callback, and the
\* catch handler delivered the exception
C20_Witness ==
  /\ Requested /\ execThrew
  /\ "ntlm" \in DOMAIN call.exoptions
  /\ execSync = 0
  /\ pc = "returned"
  /\ hs.state = "handled"
  /\ delivered = <<Args("ExecutorThrew", Undefined, Undefined)>>


====
